---- MODULE Spec2Model ----
(***************************************************************************)
(* Radio transmission state machine of the WatchPLB firmware (radio.c):    *)
(* RADIO_Init, RADIO_Process, RADIO_SetFrame, Transmit10, SetReg, GetReg   *)
(* and DumpRegister, driven by a polling loop and the millisecond tick     *)
(* HAL_GetTick().  The serial bus is modelled by the list of register      *)
(* transactions each call issues; the status byte and the register value   *)
(* the device answers with are inputs of the call.                         *)
(***************************************************************************)
EXTENDS Integers, Sequences, FiniteSets, TLC

(* ---------------- bounds of the model ---------------------------------- *)
\* number of values of the millisecond tick and of the deadline fields before they wrap
\* (2^32 in the firmware)
TickMod == 8
\* RADIO_FRAME_LENGTH is set in radio.h; frames of 1 .. RADIO_FRAME_LENGTH-1 elements
RADIO_FRAME_LENGTH == 3
\* frame elements range over 0 .. MaxByte (0 .. 255 in the firmware)
MaxByte == 1
\* status bytes range over 0 .. 2^StatusBits - 1 where Transmit10 is checked on its own
\* (8 bits in the firmware)
StatusBits == 6
\* the delays are scaled to the tick width, keeping their order
\* (STARTUP_DELAY < CONFIGURATION_DELAY < PREAMBLE_DURATION < AR_INTERVAL < TickMod):
\* 5 ms in the firmware (radio.c: #define CONFIGURATION_DELAY 5)
CONFIGURATION_DELAY == 2
\* 160 ms in the firmware (radio.c: #define PREAMBLE_DURATION 160)
PREAMBLE_DURATION == 3
\* 300000 ms in the firmware (radio.c: #define AR_INTERVAL (5*60*1000))
AR_INTERVAL == 6

(* ---------------- program constants ------------------------------------ *)
MAX_ADDR == 80
ADDR_PWRMODE == 2
ADDR_XTALOSC == 3
ADDR_FIFOCTRL == 4
ADDR_FIFODATA == 5
ADDR_MODULATION == 16
ADDR_ENCODING == 17
ADDR_FRAMING == 18
ADDR_FREQ3 == 32
ADDR_FREQ2 == 33
ADDR_FREQ1 == 34
ADDR_FREQ0 == 35
ADDR_FSKDEV2 == 37
ADDR_FSKDEV1 == 38
ADDR_FSKDEV0 == 39
ADDR_PLLLOOP == 44
ADDR_PLLRANGING == 45
ADDR_TXPWR == 48
ADDR_TXRATEHI == 49
ADDR_TXRATEMID == 50
ADDR_TXRATELO == 51
CONF_XTALOSC == 24
CONF_MODULATION == 6
CONF_ENCODING == 0
CONF_FRAMING == 0
CONF_FREQ3 == 25
CONF_FREQ2 == 96
CONF_FREQ1 == 200
CONF_FREQ0 == 181
CONF_TXPWR == 15
CONF_TXRATEHI == 1
CONF_TXRATEMID == 153
CONF_TXRATELO == 154
CONF_PLLRANGING == 24
CONF_PLLLOOP == 41
CONF_FSKDEV2 == 0
CONF_FSKDEV1 == 0
CONF_FSKDEV0 == 0
MASK_PLLRANGING_START == 16
MASK_PLLRANGING_ERROR == 32
PWRMODE_STANDBY == 5
PWRMODE_SYNTHTX == 12
PWRMODE_FULLTX == 13
IQ_1 == 873
IQ_0 == 151
PREAMBLE_MSG == 85
STARTUP_DELAY == 1
STATE_S3_FIFO_FULL == 8

Byte == 0 .. MaxByte
\* the null pointer: a buffer with no element
NULL == << >>

(* ---------------- state ------------------------------------------------ *)
VARIABLES
  tick,      \* uwTick, the value HAL_GetTick() returns
  state,     \* inst->state
  idx,       \* inst->idx: deadline while waiting, cursor while transmitting
  len,       \* inst->len
  frame,     \* inst->frame[RADIO_FRAME_LENGTH]
  nextAR,    \* inst->nextAR
  bus,       \* register transactions issued by the last call
  lastOp,    \* the last call: operation, state it was made in, its inputs (SetFrame in IDLE: data
             \* and len; SetFrame while busy: whether data and len are valid; WAIT_AR: the register read)
  sent,      \* history: frame elements accepted by the FIFO since the last accepted SetFrame
  sinceAR,   \* history: ticks since the last finished ranging after the last CONFIGURE pass, -1 if none
  txWrapped, \* history: the tick wrapped since the last accepted SetFrame
  firstConf, \* history: register writes of the first CONFIGURE pass
  pwr,       \* history: the value last written to the power-mode register, -1 before the first write
  waited,    \* history: ticks since the deadline in idx was set, -1 when idx holds no deadline
  fifoPhase  \* history: the last FIFO write of the transmission in progress
             \* (0 none or back in IDLE, 1 preamble byte, 2 frame symbol, 3 terminating symbol)

inst == <<state, idx, len, frame, nextAR>>
vars == <<tick, state, idx, len, frame, nextAR, bus, lastOp, sent, sinceAR, txWrapped, firstConf,
          pwr, waited, fifoPhase>>

RADIO_State == {"CONFIGURE", "WAIT_CONF", "IDLE", "START_TX", "WAIT_TX", "WAIT_AR",
                "PREAMBLE", "FRAME", "POSTAMBLE"}

(* ---------------- helpers ---------------------------------------------- *)
MIN(X, Y) == IF X < Y THEN X ELSE Y

\* (v & mask) != 0 for a one-bit mask
BitSet(v, mask) == (v \div mask) % 2 = 1

\* status bytes the device may answer a transaction with (FIFO_EMPTY, FIFO_FULL, FULL|OVER)
StatusVals == {4, STATE_S3_FIFO_FULL, STATE_S3_FIFO_FULL + 32}
\* contents the PLL ranging register may be read with
RangingVals == {CONF_PLLRANGING - MASK_PLLRANGING_START, CONF_PLLRANGING,
                MASK_PLLRANGING_ERROR + 8, MASK_PLLRANGING_ERROR + CONF_PLLRANGING}

\* bus transactions
SetReg(addr, data) == <<"W", addr % 128, data>>
GetReg(addr) == <<"R", addr % 128>>

Writes(b) == SelectSeq(b, LAMBDA e : e[1] = "W")

\* the i-th HAL_GetTick() of a call when the tick interrupt falls just before the k-th one (k = 0: no interrupt)
HAL_GetTick(i, k) == IF k > 0 /\ i >= k THEN (tick + 1) % TickMod ELSE tick

\* deadline arithmetic on the tick width
Deadline(now, delay) == (now + delay) % TickMod

DumpRegister == [i \in 1 .. MAX_ADDR + 1 |-> GetReg(i - 1)]

\* a reconfiguration whose power-mode write depends on whether a frame was accepted before
ConfigureWrites_Stateful ==
  << SetReg(ADDR_PWRMODE, IF len = 0 THEN PWRMODE_STANDBY ELSE PWRMODE_SYNTHTX),
     SetReg(ADDR_XTALOSC, CONF_XTALOSC),
     SetReg(ADDR_PLLLOOP, CONF_PLLLOOP),
     SetReg(ADDR_FREQ3, CONF_FREQ3),
     SetReg(ADDR_FREQ2, CONF_FREQ2),
     SetReg(ADDR_FREQ1, CONF_FREQ1),
     SetReg(ADDR_FREQ0, CONF_FREQ0),
     SetReg(ADDR_TXPWR, CONF_TXPWR),
     SetReg(ADDR_FSKDEV2, CONF_FSKDEV2),
     SetReg(ADDR_FSKDEV1, CONF_FSKDEV1),
     SetReg(ADDR_FSKDEV0, CONF_FSKDEV0),
     SetReg(ADDR_TXRATEHI, CONF_TXRATEHI),
     SetReg(ADDR_TXRATEMID, CONF_TXRATEMID),
     SetReg(ADDR_TXRATELO, CONF_TXRATELO),
     SetReg(ADDR_MODULATION, CONF_MODULATION),
     SetReg(ADDR_ENCODING, CONF_ENCODING),
     SetReg(ADDR_FRAMING, CONF_FRAMING) >>

ConfigureWrites ==
  << SetReg(ADDR_PWRMODE, PWRMODE_STANDBY),
     SetReg(ADDR_XTALOSC, CONF_XTALOSC),
     SetReg(ADDR_PLLLOOP, CONF_PLLLOOP),
     SetReg(ADDR_FREQ3, CONF_FREQ3),
     SetReg(ADDR_FREQ2, CONF_FREQ2),
     SetReg(ADDR_FREQ1, CONF_FREQ1),
     SetReg(ADDR_FREQ0, CONF_FREQ0),
     SetReg(ADDR_TXPWR, CONF_TXPWR),
     SetReg(ADDR_FSKDEV2, CONF_FSKDEV2),
     SetReg(ADDR_FSKDEV1, CONF_FSKDEV1),
     SetReg(ADDR_FSKDEV0, CONF_FSKDEV0),
     SetReg(ADDR_TXRATEHI, CONF_TXRATEHI),
     SetReg(ADDR_TXRATEMID, CONF_TXRATEMID),
     SetReg(ADDR_TXRATELO, CONF_TXRATELO),
     SetReg(ADDR_MODULATION, CONF_MODULATION),
     SetReg(ADDR_ENCODING, CONF_ENCODING),
     SetReg(ADDR_FRAMING, CONF_FRAMING) >>

\* the 10-bit symbol two register writes (FIFOCTRL: bits 9..8, FIFODATA: bits 7..0) put into the FIFO
Symbol(b) == b[1][3] * 256 + b[2][3]

\* a symbol selection the wrong way round
Transmit10_Swapped(data, status) ==
  LET tx == IF data = 0 THEN IQ_1 ELSE IQ_0
      ok == ~BitSet(status, STATE_S3_FIFO_FULL)
  IN  [ bus |-> IF ok THEN << SetReg(ADDR_FIFOCTRL, tx \div 256), SetReg(ADDR_FIFODATA, tx % 256) >>
                      ELSE << SetReg(ADDR_FIFOCTRL, tx \div 256) >>,
        ret |-> ok ]

\* a push that writes the low byte whatever the status says
Transmit10_Always(data, status) ==
  LET tx == IF data = 0 THEN IQ_0 ELSE IQ_1
  IN  [ bus |-> << SetReg(ADDR_FIFOCTRL, tx \div 256), SetReg(ADDR_FIFODATA, tx % 256) >>,
        ret |-> TRUE ]

\* Transmit10: the symbol of one frame element, pushed if the FIFO is not full
Transmit10(data, status) ==
  LET tx == IF data = 0 THEN IQ_0 ELSE IQ_1
      ok == ~BitSet(status, STATE_S3_FIFO_FULL)
  IN  [ bus |-> IF ok THEN << SetReg(ADDR_FIFOCTRL, tx \div 256), SetReg(ADDR_FIFODATA, tx % 256) >>
                      ELSE << SetReg(ADDR_FIFOCTRL, tx \div 256) >>,
        ret |-> ok ]

\* a push loop that steps over a rejected element
RECURSIVE FrameLoop_Drop(_, _, _, _)
FrameLoop_Drop(i, sts, b, s) ==
  IF i < len
  THEN LET t == Transmit10(frame[i + 1], Head(sts))
       IN  IF t.ret
           THEN FrameLoop_Drop(i + 1, Tail(sts), b \o t.bus, Append(s, <<i, Symbol(t.bus)>>))
           ELSE [idx |-> i + 1, bus |-> b \o t.bus, sent |-> s]
  ELSE [idx |-> i, bus |-> b, sent |-> s]

\* a push loop that waits inside the call: a rejected element is tried again at once
RECURSIVE FrameLoop_Retry(_, _, _, _)
FrameLoop_Retry(i, sts, b, s) ==
  IF i < len /\ sts # << >>
  THEN LET t == Transmit10(frame[i + 1], Head(sts))
       IN  IF t.ret
           THEN FrameLoop_Retry(i + 1, Tail(sts), b \o t.bus, Append(s, <<i, Symbol(t.bus)>>))
           ELSE IF Tail(sts) # << >>
           THEN FrameLoop_Retry(i, Tail(sts), b \o t.bus, s)
           ELSE [idx |-> i, bus |-> b \o t.bus, sent |-> s]
  ELSE [idx |-> i, bus |-> b, sent |-> s]

\* while (inst->idx < inst->len && Transmit10(inst, inst->frame[inst->idx])) inst->idx++;
\* sts: the status bytes the device answers the successive pushes with
RECURSIVE FrameLoop(_, _, _, _)
FrameLoop(i, sts, b, s) ==
  IF i < len
  THEN LET t == Transmit10(frame[i + 1], Head(sts))
       IN  IF t.ret
           THEN FrameLoop(i + 1, Tail(sts), b \o t.bus, Append(s, <<i, Symbol(t.bus)>>))
           ELSE [idx |-> i, bus |-> b \o t.bus, sent |-> s]
  ELSE [idx |-> i, bus |-> b, sent |-> s]

\* a configuration wait that ends on the deadline itself
ConfElapsed_Early(now) == now >= idx

\* WAIT_CONF: if (HAL_GetTick() > inst->idx)
ConfElapsed(now) == now > idx

\* WAIT_TX: if (HAL_GetTick() > inst->idx)
TxReady(now) == now > idx

\* WAIT_TX: if (HAL_GetTick() > inst->nextAR), the branch that skips ranging
ARSkipped(now) == now > nextAR

\* an error test on the wrong bit
RangingFailed_Start(reg) == BitSet(reg, MASK_PLLRANGING_START)

\* WAIT_AR: if (reg & MASK_PLLRANGING_ERROR)
RangingFailed(reg) == BitSet(reg, MASK_PLLRANGING_ERROR)

\* WAIT_AR: else if ((reg & MASK_PLLRANGING_START) == 0)
RangingFinished(reg) == ~BitSet(reg, MASK_PLLRANGING_START)

\* PREAMBLE: if (HAL_GetTick() < inst->idx)
PreambleRunning(now) == now < idx

\* a FRAME test that is never true
FrameDone_Never == idx > len

\* FRAME: if (inst->idx >= inst->len)
FrameDone == idx >= len

\* an admission test that forgets the state
SetFrameAccepts_Busy(data, n) ==
  data # NULL /\ n # 0 /\ n < RADIO_FRAME_LENGTH

\* an admission test that forgets len != 0
SetFrameAccepts_Zero(data, n) ==
  state = "IDLE" /\ data # NULL /\ n < RADIO_FRAME_LENGTH

\* the admission test of RADIO_SetFrame
SetFrameAccepts(data, n) ==
  state = "IDLE" /\ data # NULL /\ n # 0 /\ n < RADIO_FRAME_LENGTH

\* a copy one element short
memcpy_Short(dst, src, n) == [i \in DOMAIN dst |-> IF i < n THEN src[i] ELSE dst[i]]

memcpy(dst, src, n) == [i \in DOMAIN dst |-> IF i <= n THEN src[i] ELSE dst[i]]

(* ---------------- history bookkeeping ---------------------------------- *)
\* a request RADIO_SetFrame is meant to take: a buffer and a length of 1 .. RADIO_FRAME_LENGTH-1
ValidRequest(data, n) == data # NULL /\ n >= 1 /\ n <= RADIO_FRAME_LENGTH - 1
Elapsed(t2) == (t2 - tick + TickMod) % TickMod
Clock(t2) ==
  /\ tick' = t2
  /\ txWrapped' = (txWrapped \/ t2 < tick)
Aged(t2) == IF sinceAR = -1 THEN -1 ELSE MIN(sinceAR + Elapsed(t2), AR_INTERVAL)
\* the power mode after the transactions b, p before them
PwrAfter(b, p) ==
  LET w == SelectSeq(b, LAMBDA e : e[1] = "W" /\ e[2] = ADDR_PWRMODE)
  IN  IF w = << >> THEN p ELSE w[Len(w)][3]
MaxWait == PREAMBLE_DURATION + 1
Waited(t2) == IF waited = -1 THEN -1 ELSE MIN(waited + Elapsed(t2), MaxWait)
Call(op, in) == lastOp' = [op |-> op, from |-> state, in |-> in]
\* the power mode the transactions of the call leave
Power == pwr' = PwrAfter(bus', pwr)

(* ---------------- construction ----------------------------------------- *)
\* RADIO_Init sets spi, idx, len and state.  frame and nextAR keep what the memory of the
\* (static, zero-filled) instance held; neither is read before CONFIGURE and SetFrame write it
Init ==
  /\ tick = 0
  /\ state = "CONFIGURE"
  /\ idx = 0
  /\ len = 0
  /\ frame = [i \in 1 .. RADIO_FRAME_LENGTH |-> 0]
  /\ nextAR = 0
  /\ bus = << >>
  /\ lastOp = [op |-> "Init", from |-> "CONFIGURE", in |-> << >>]
  /\ sent = << >>
  /\ sinceAR = -1
  /\ txWrapped = FALSE
  /\ firstConf = << >>
  /\ pwr = -1
  /\ waited = -1
  /\ fifoPhase = 0

(* ---------------- RADIO_Process, one action per case ------------------- *)
ProcConfigure ==
  /\ state = "CONFIGURE"
  /\ bus' = ConfigureWrites \o DumpRegister
  /\ idx' = Deadline(tick, CONFIGURATION_DELAY)
  /\ nextAR' = 0
  /\ state' = "WAIT_CONF"
  /\ Call("Process", << >>)
  /\ sinceAR' = -1
  /\ firstConf' = IF firstConf = << >> THEN Writes(bus') ELSE firstConf
  /\ waited' = 0
  /\ UNCHANGED <<tick, len, frame, sent, txWrapped, fifoPhase>>
  /\ Power

\* a configuration wait that takes an accepted frame up again
ProcWaitConf_Resume ==
  /\ state = "WAIT_CONF"
  /\ state' = IF ConfElapsed(tick) THEN (IF len # 0 THEN "START_TX" ELSE "IDLE") ELSE state
  /\ bus' = << >>
  /\ Call("Process", << >>)
  /\ waited' = IF ConfElapsed(tick) THEN -1 ELSE waited
  /\ UNCHANGED <<tick, idx, len, frame, nextAR, sent, sinceAR, txWrapped, firstConf, fifoPhase>>
  /\ Power

ProcWaitConf ==
  /\ state = "WAIT_CONF"
  /\ state' = IF ConfElapsed(tick) THEN "IDLE" ELSE state
  /\ bus' = << >>
  /\ Call("Process", << >>)
  /\ waited' = IF ConfElapsed(tick) THEN -1 ELSE waited
  /\ UNCHANGED <<tick, idx, len, frame, nextAR, sent, sinceAR, txWrapped, firstConf, fifoPhase>>
  /\ Power

ProcIdle ==
  /\ state = "IDLE"
  /\ bus' = << >>
  /\ Call("Process", << >>)
  /\ UNCHANGED <<tick, inst, sent, sinceAR, txWrapped, firstConf, waited, fifoPhase>>
  /\ Power

ProcStartTx ==
  /\ state = "START_TX"
  /\ bus' = << SetReg(ADDR_PWRMODE, PWRMODE_SYNTHTX) >>
  /\ idx' = Deadline(tick, STARTUP_DELAY)
  /\ state' = "WAIT_TX"
  /\ Call("Process", << >>)
  /\ waited' = 0
  /\ UNCHANGED <<tick, len, frame, nextAR, sent, sinceAR, txWrapped, firstConf, fifoPhase>>
  /\ Power

ProcWaitTx ==
  /\ state = "WAIT_TX"
  /\ \E k \in {0, 2, 3} :
       LET n1 == HAL_GetTick(1, k)
           n2 == HAL_GetTick(2, k)
           n3 == HAL_GetTick(3, k)
       IN  /\ Call("Process", << >>)
           /\ IF TxReady(n1)
              THEN IF ARSkipped(n2)
                   THEN /\ bus' = << SetReg(ADDR_PWRMODE, PWRMODE_FULLTX) >>
                        /\ idx' = Deadline(n3, PREAMBLE_DURATION)
                        /\ state' = "PREAMBLE"
                        /\ Clock(n3)
                        /\ sinceAR' = Aged(n3)
                        /\ waited' = 0
                   ELSE /\ bus' = << SetReg(ADDR_PLLRANGING, CONF_PLLRANGING) >>
                        /\ state' = "WAIT_AR"
                        /\ Clock(n2)
                        /\ sinceAR' = Aged(n2)
                        /\ waited' = -1
                        /\ UNCHANGED idx
              ELSE /\ bus' = << >>
                   /\ UNCHANGED <<tick, txWrapped, sinceAR, idx, state, waited>>
  /\ UNCHANGED <<len, frame, nextAR, sent, firstConf, fifoPhase>>
  /\ Power

ProcWaitAr ==
  /\ state = "WAIT_AR"
  /\ \E k \in {0, 2}, reg \in RangingVals :
       LET n1 == HAL_GetTick(1, k)
           n2 == HAL_GetTick(2, k)
       IN  /\ Call("Process", <<reg>>)
           /\ IF RangingFailed(reg)
              THEN /\ bus' = << GetReg(ADDR_PLLRANGING) >>
                   /\ state' = "CONFIGURE"
                   /\ UNCHANGED <<tick, txWrapped, sinceAR, idx, nextAR, waited>>
              ELSE IF RangingFinished(reg)
              THEN /\ bus' = << GetReg(ADDR_PLLRANGING), SetReg(ADDR_PWRMODE, PWRMODE_FULLTX) >>
                   /\ state' = "PREAMBLE"
                   /\ nextAR' = Deadline(n1, AR_INTERVAL)
                   /\ idx' = Deadline(n2, PREAMBLE_DURATION)
                   /\ Clock(n2)
                   /\ sinceAR' = 0
                   /\ waited' = 0
              ELSE /\ bus' = << GetReg(ADDR_PLLRANGING) >>
                   /\ UNCHANGED <<tick, txWrapped, sinceAR, idx, nextAR, state, waited>>
  /\ UNCHANGED <<len, frame, sent, firstConf, fifoPhase>>
  /\ Power

\* a preamble that hands its deadline to FRAME as the cursor
ProcPreamble_KeepDeadline ==
  /\ state = "PREAMBLE"
  /\ IF PreambleRunning(tick)
     THEN /\ bus' = << SetReg(ADDR_FIFODATA, PREAMBLE_MSG) >>
          /\ fifoPhase' = 1
          /\ UNCHANGED <<idx, state, waited>>
     ELSE /\ bus' = << >>
          /\ state' = "FRAME"
          /\ waited' = -1
          /\ UNCHANGED <<idx, fifoPhase>>
  /\ Call("Process", << >>)
  /\ UNCHANGED <<tick, len, frame, nextAR, sent, sinceAR, txWrapped, firstConf>>
  /\ Power

ProcPreamble ==
  /\ state = "PREAMBLE"
  /\ IF PreambleRunning(tick)
     THEN /\ bus' = << SetReg(ADDR_FIFODATA, PREAMBLE_MSG) >>
          /\ fifoPhase' = 1
          /\ UNCHANGED <<idx, state, waited>>
     ELSE /\ bus' = << >>
          /\ idx' = 0
          /\ state' = "FRAME"
          /\ waited' = -1
          /\ UNCHANGED fifoPhase
  /\ Call("Process", << >>)
  /\ UNCHANGED <<tick, len, frame, nextAR, sent, sinceAR, txWrapped, firstConf>>
  /\ Power

ProcFrame ==
  /\ state = "FRAME"
  /\ \E sts \in [1 .. len - MIN(idx, len) -> StatusVals] :
       /\ Call("Process", << >>)
       /\ IF FrameDone
          THEN /\ state' = "POSTAMBLE"
               /\ idx' = 0
               /\ bus' = << >>
               /\ UNCHANGED <<sent, fifoPhase>>
          ELSE LET r == FrameLoop(idx, sts, << >>, sent)
               IN  /\ idx' = r.idx
                   /\ bus' = r.bus
                   /\ sent' = r.sent
                   /\ fifoPhase' = IF r.sent # sent THEN 2 ELSE fifoPhase
                   /\ UNCHANGED state
  /\ UNCHANGED <<tick, len, frame, nextAR, sinceAR, txWrapped, firstConf, waited>>
  /\ Power

\* a postamble that powers down before its last push
ProcPostamble_StandbyFirst ==
  /\ state = "POSTAMBLE"
  /\ \E status \in StatusVals :
       LET t == Transmit10(0, status)
       IN  /\ Call("Process", << >>)
           /\ IF idx = 0
              THEN /\ idx' = idx + 1
                   /\ bus' = t.bus
                   /\ UNCHANGED state
              ELSE /\ bus' = << SetReg(ADDR_PWRMODE, PWRMODE_STANDBY) >> \o t.bus
                   /\ state' = "IDLE"
                   /\ idx' = 0
           /\ fifoPhase' = IF idx # 0 THEN 0 ELSE IF t.ret THEN 3 ELSE fifoPhase
  /\ UNCHANGED <<tick, len, frame, nextAR, sent, sinceAR, txWrapped, firstConf, waited>>
  /\ Power

\* a postamble that goes back to the frame after its first poll
ProcPostamble_Again ==
  /\ state = "POSTAMBLE"
  /\ \E status \in StatusVals :
       LET t == Transmit10(0, status)
       IN  /\ Call("Process", << >>)
           /\ bus' = t.bus
           /\ state' = "FRAME"
           /\ idx' = 0
           /\ fifoPhase' = IF t.ret THEN 3 ELSE fifoPhase
  /\ UNCHANGED <<tick, len, frame, nextAR, sent, sinceAR, txWrapped, firstConf, waited>>
  /\ Power

ProcPostamble ==
  /\ state = "POSTAMBLE"
  /\ \E status \in StatusVals :
       LET t == Transmit10(0, status)
       IN  /\ Call("Process", << >>)
           /\ IF idx = 0
              THEN /\ idx' = idx + 1
                   /\ bus' = t.bus
                   /\ UNCHANGED state
              ELSE /\ bus' = t.bus \o << SetReg(ADDR_PWRMODE, PWRMODE_STANDBY) >>
                   /\ state' = "IDLE"
                   /\ idx' = 0
           /\ fifoPhase' = IF idx # 0 THEN 0 ELSE IF t.ret THEN 3 ELSE fifoPhase
  /\ UNCHANGED <<tick, len, frame, nextAR, sent, sinceAR, txWrapped, firstConf, waited>>
  /\ Power

RADIO_Process ==
  \/ ProcConfigure
  \/ ProcWaitConf
  \/ ProcIdle
  \/ ProcStartTx
  \/ ProcWaitTx
  \/ ProcWaitAr
  \/ ProcPreamble
  \/ ProcFrame
  \/ ProcPostamble

(* ---------------- RADIO_SetFrame --------------------------------------- *)
\* the caller's buffer: null, or the RADIO_FRAME_LENGTH-1 elements the longest accepted frame
\* reads, filled with zeros or with a ramp of values starting anywhere
DataVals ==
  {NULL} \cup { [i \in 1 .. RADIO_FRAME_LENGTH - 1 |-> 0] }
         \cup { [i \in 1 .. RADIO_FRAME_LENGTH - 1 |-> (i + r) % (MaxByte + 1)] : r \in Byte }
LenVals == 0 .. RADIO_FRAME_LENGTH

RADIO_SetFrame ==
  \E data \in DataVals, n \in LenVals :
    /\ Call("SetFrame", IF state = "IDLE" THEN [data |-> data, n |-> n]
                                          ELSE [valid |-> ValidRequest(data, n)])
    /\ bus' = << >>
    /\ IF SetFrameAccepts(data, n)
       THEN /\ frame' = memcpy(frame, data, n)
            /\ len' = n
            /\ idx' = 0
            /\ state' = "START_TX"
            /\ sent' = << >>
            /\ txWrapped' = FALSE
            /\ fifoPhase' = 0
       ELSE UNCHANGED <<frame, len, idx, state, sent, txWrapped, fifoPhase>>
    /\ UNCHANGED <<tick, nextAR, sinceAR, firstConf, waited>>
    /\ Power

(* ---------------- the millisecond tick --------------------------------- *)
Tick ==
  /\ Clock((tick + 1) % TickMod)
  /\ sinceAR' = Aged((tick + 1) % TickMod)
  /\ waited' = Waited((tick + 1) % TickMod)
  /\ Call("Tick", << >>)
  /\ bus' = << >>
  /\ UNCHANGED <<inst, sent, firstConf, fifoPhase>>
  /\ Power

Next == RADIO_Process \/ RADIO_SetFrame \/ Tick

Spec == Init /\ [][Next]_vars

(* ---------------- Transmit10 on its own ---------------------------------- *)
StatusByte == 0 .. 2 ^ StatusBits - 1

\* one call of Transmit10 with any data and any status answered to its FIFOCTRL write
CallTransmit10 ==
  \E data \in Byte, status \in StatusByte :
    LET t == Transmit10(data, status)
    IN  /\ bus' = t.bus
        /\ lastOp' = [op |-> "Transmit10", from |-> state, in |-> <<data, status>>, ret |-> t.ret]
        /\ Power
        /\ UNCHANGED <<tick, inst, sent, sinceAR, txWrapped, firstConf, waited, fifoPhase>>

SpecT10 == Init /\ [][CallTransmit10]_vars

(* ---------------- the polling loop with its scheduling ------------------ *)
\* a FRAME poll whose first push the FIFO accepts, or which leaves FRAME
FramePollAccepted == ProcFrame /\ (idx' # idx \/ state' # state)
\* a WAIT_AR poll that reads the ranging register as finished without error
RangingPollFinished == ProcWaitAr /\ state' = "PREAMBLE"

\* the tick counts on, without wrapping, while the machine waits for a deadline
WaitingTick == Tick /\ tick' > tick /\ state \in {"WAIT_CONF", "WAIT_TX", "PREAMBLE"}

\* a poll of the host loop; in FRAME one the FIFO accepts a push of, in WAIT_AR one that
\* reads the ranging as finished
Poll ==
  \/ RADIO_Process /\ state \notin {"FRAME", "WAIT_AR"}
  \/ FramePollAccepted
  \/ RangingPollFinished

\* the host keeps polling, the tick keeps counting while a deadline is awaited, the FIFO is
\* eventually not full and the ranging register eventually reports finished without error
SpecLive ==
  /\ Init /\ [][Next]_vars
  /\ WF_vars(WaitingTick)
  /\ WF_vars(Poll)

(* ---------------- claims ------------------------------------------------ *)
\* the tick stopped advancing monotonically: it wrapped during the transmission, or it
\* stands at its last value
ClockRanOut == txWrapped \/ tick = TickMod - 1

\* C1: a frame accepted in IDLE is followed by IDLE again under repeated polls, as long
\* as the tick advances monotonically (it neither wraps nor runs out during the transmission)
C1_BackToIdle == (state = "START_TX") ~> (state = "IDLE" \/ ClockRanOut)
C1_Witness ==
  /\ state = "IDLE" /\ lastOp.op = "Process" /\ lastOp.from = "POSTAMBLE"
  /\ ~ClockRanOut /\ Len(sent) = len /\ len = RADIO_FRAME_LENGTH - 1

Positions(s) == [i \in 1 .. Len(s) |-> s[i][1]]
Symbols(s) == [i \in 1 .. Len(s) |-> s[i][2]]
FrameLeft == state = "POSTAMBLE" \/ (state = "IDLE" /\ lastOp.from = "POSTAMBLE")

\* C2 as stated: when FRAME is left, 8 symbols per frame byte were accepted by the FIFO
C2_EightSymbolsPerByte == FrameLeft => Len(sent) = 8 * len
\* C2 amended: when FRAME is left, exactly one symbol per frame element was accepted, in
\* buffer order: IQ_0 for an element equal to 0, IQ_1 for any other element
C2_OneSymbolPerElement ==
  FrameLeft => Symbols(sent) = [i \in 1 .. len |-> IF frame[i] = 0 THEN IQ_0 ELSE IQ_1]
C2_Witness ==
  /\ state = "POSTAMBLE" /\ len = 2 /\ frame[1] # 0 /\ frame[2] = 0 /\ Len(sent) = 2

\* pushes of one call: accepted ones end with a FIFODATA write, a rejected one is a lone FIFOCTRL write
AcceptedPushes(b) == Len(SelectSeq(b, LAMBDA e : e[1] = "W" /\ e[2] = ADDR_FIFODATA))
RejectedPush(b) == Len(b) > 0 /\ b[Len(b)][2] = ADDR_FIFOCTRL

\* C3: in FRAME the cursor advances by exactly the pushes the FIFO accepted, a rejected push
\* leaves it on the rejected element, and the accepted positions are 0, 1, .. in order:
\* 0 .. idx-1 while in FRAME and 0 .. len-1 once FRAME is left
C3_PositionsInOrder ==
  /\ state = "FRAME" => idx <= len /\ Positions(sent) = [i \in 1 .. idx |-> i - 1]
  /\ FrameLeft => Positions(sent) = [i \in 1 .. len |-> i - 1]
C3_CursorFollowsFifo ==
  (state = "FRAME" /\ lastOp'.op = "Process" /\ state' = "FRAME") =>
     /\ idx' = idx + AcceptedPushes(bus')
     /\ RejectedPush(bus') => idx' < len /\ sent' = SubSeq(sent', 1, idx')
     /\ SubSeq(sent', 1, Len(sent)) = sent
C3_NoSymbolDropped == [] C3_PositionsInOrder /\ [][C3_CursorFollowsFifo]_vars
C3_Witness ==
  /\ state = "FRAME" /\ lastOp.op = "Process" /\ lastOp.from = "FRAME"
  /\ 0 < idx /\ idx < len /\ RejectedPush(bus) /\ AcceptedPushes(bus) = 1

\* C4 as stated: PREAMBLE is entered straight from WAIT_TX only if a ranging has finished
\* since the last CONFIGURE pass (the first transmission after CONFIGURE goes through WAIT_AR)
C4_RangingOnFirstTransmit ==
  [][(state = "WAIT_TX" /\ state' = "PREAMBLE") => sinceAR # -1]_vars

\* C5 as stated: a WAIT_TX poll made less than AR_INTERVAL after the last finished ranging
\* does not issue the ranging command
C5_NoRangingWithinInterval ==
  [][(state = "WAIT_TX" /\ sinceAR' \in 0 .. AR_INTERVAL - 1) => state' # "WAIT_AR"]_vars

IsSetFrame(op) == op.op = "SetFrame"

\* C6: a SetFrame call made in a state other than IDLE, valid request or not, leaves frame,
\* len, idx and state unchanged
C6_BusyRequestIgnored ==
  [][(IsSetFrame(lastOp') /\ state # "IDLE") => UNCHANGED <<frame, len, idx, state>>]_vars
C6_Witness ==
  /\ IsSetFrame(lastOp) /\ lastOp.from = "FRAME" /\ lastOp.in.valid
  /\ state = "FRAME" /\ idx < len

\* C7: a SetFrame call made in IDLE with null data, length 0 or length >= RADIO_FRAME_LENGTH
\* leaves state = IDLE and frame, len, idx unchanged
C7_InvalidRequestIgnored ==
  [][(/\ IsSetFrame(lastOp') /\ state = "IDLE"
      /\ (lastOp'.in.data = NULL \/ lastOp'.in.n = 0 \/ lastOp'.in.n >= RADIO_FRAME_LENGTH))
       => (state' = "IDLE" /\ UNCHANGED <<frame, len, idx>>)]_vars
C7_Witness ==
  /\ IsSetFrame(lastOp) /\ lastOp.from = "IDLE" /\ state = "IDLE"
  /\ lastOp.in.data # NULL /\ lastOp.in.n = RADIO_FRAME_LENGTH /\ len # 0

\* C8: a SetFrame call made in IDLE with non-null data and 1 <= length < RADIO_FRAME_LENGTH
\* copies the first length elements of data to frame (the others keep their value), sets
\* len = length, idx = 0 and state = START_TX; a poll in IDLE changes nothing and touches
\* no register, and IDLE is left by such a SetFrame call only
C8_Accepted(in) == in.data # NULL /\ in.n >= 1 /\ in.n < RADIO_FRAME_LENGTH
C8_Admission ==
  [][/\ (IsSetFrame(lastOp') /\ state = "IDLE" /\ C8_Accepted(lastOp'.in)) =>
          /\ \A i \in 1 .. RADIO_FRAME_LENGTH :
               frame'[i] = IF i <= lastOp'.in.n THEN lastOp'.in.data[i] ELSE frame[i]
          /\ len' = lastOp'.in.n
          /\ idx' = 0
          /\ state' = "START_TX"
     /\ (state = "IDLE" /\ lastOp'.op = "Process") => (UNCHANGED inst /\ bus' = << >>)
     /\ (state = "IDLE" /\ state' # "IDLE") => (IsSetFrame(lastOp') /\ C8_Accepted(lastOp'.in))
    ]_vars
C8_Witness ==
  /\ IsSetFrame(lastOp) /\ lastOp.from = "IDLE" /\ state = "START_TX"
  /\ lastOp.in.n = 1 /\ lastOp.in.data[1] # frame[2] /\ frame[1] = lastOp.in.data[1]

ErrorFlag(reg) == (reg \div 32) % 2 = 1

\* C9: a WAIT_AR poll that reads the ranging register with the error flag set moves to
\* CONFIGURE; the next poll replays the configuration writes and moves to WAIT_CONF; and
\* CONFIGURE is entered by such a WAIT_AR poll only
C9_RangingErrorReconfigures ==
  [][/\ (state = "WAIT_AR" /\ lastOp'.op = "Process" /\ ErrorFlag(lastOp'.in[1]))
          => state' = "CONFIGURE"
     /\ (state = "CONFIGURE" /\ lastOp'.op = "Process")
          => (state' = "WAIT_CONF" /\ (firstConf # << >> => Writes(bus') = firstConf))
     /\ (state # "CONFIGURE" /\ state' = "CONFIGURE")
          => (state = "WAIT_AR" /\ lastOp'.op = "Process" /\ ErrorFlag(lastOp'.in[1]))
     /\ (state = "CONFIGURE" /\ state' # "CONFIGURE") => state' = "WAIT_CONF"
    ]_vars
C9_Witness ==
  /\ state = "CONFIGURE" /\ lastOp.op = "Process" /\ lastOp.from = "WAIT_AR"
  /\ ErrorFlag(lastOp.in[1]) /\ firstConf # << >>

\* C10: every poll made in CONFIGURE issues the register writes the first CONFIGURE pass
\* issued, 17 of them, and ends with nextAR = 0 and state = WAIT_CONF
C10_SameConfiguration ==
  [][(state = "CONFIGURE" /\ lastOp'.op = "Process") =>
        /\ Writes(bus') = firstConf'
        /\ Len(Writes(bus')) = 17
        /\ nextAR' = 0
        /\ state' = "WAIT_CONF"]_vars
C10_Witness ==
  /\ state = "WAIT_CONF" /\ lastOp.op = "Process" /\ lastOp.from = "CONFIGURE"
  /\ len # 0 /\ nextAR = 0 /\ Writes(bus) = firstConf

(* ---------------- FIFO traffic of one call ----------------------------- *)
IsWrite(e, addr) == e[1] = "W" /\ e[2] = addr
\* a byte written to FIFODATA with no FIFOCTRL write before it
RawWrites(b) ==
  {i \in DOMAIN b : IsWrite(b[i], ADDR_FIFODATA) /\ (i = 1 \/ ~IsWrite(b[i - 1], ADDR_FIFOCTRL))}
\* a symbol the FIFO took: a FIFOCTRL write followed by the FIFODATA write
SymbolPushes(b) ==
  {i \in DOMAIN b : IsWrite(b[i], ADDR_FIFODATA) /\ i > 1 /\ IsWrite(b[i - 1], ADDR_FIFOCTRL)}
\* a symbol the FIFO refused: a FIFOCTRL write with no FIFODATA write after it
RejectedPushes(b) ==
  {i \in DOMAIN b : IsWrite(b[i], ADDR_FIFOCTRL) /\ (i = Len(b) \/ ~IsWrite(b[i + 1], ADDR_FIFODATA))}
FifoWrites(b) == {i \in DOMAIN b : IsWrite(b[i], ADDR_FIFODATA) \/ IsWrite(b[i], ADDR_FIFOCTRL)}
IsProcess(op) == op.op = "Process"

\* C11 as stated: the first POSTAMBLE poll pushes the terminating symbol (IQ_0) and sets
\* idx = 1; the second writes standby to the power-mode register and moves to IDLE without
\* touching the FIFO
C11_OneTerminatingSymbol ==
  [][(state = "POSTAMBLE" /\ IsProcess(lastOp')) =>
       IF idx = 0
       THEN /\ bus' = << SetReg(ADDR_FIFOCTRL, IQ_0 \div 256), SetReg(ADDR_FIFODATA, IQ_0 % 256) >>
            /\ idx' = 1
            /\ state' = "POSTAMBLE"
       ELSE /\ bus' = << SetReg(ADDR_PWRMODE, PWRMODE_STANDBY) >>
            /\ state' = "IDLE"]_vars

\* C12: within a transmission the FIFO writes come in the order preamble bytes, frame
\* symbols, terminating symbols: a preamble byte is written only while neither a frame
\* symbol nor a terminating symbol was written, a frame symbol only while no terminating
\* symbol was written, and the FIFO is written in PREAMBLE, FRAME and POSTAMBLE only
C12_FifoWritesOrdered ==
  [][/\ RawWrites(bus') # {} =>
          /\ state = "PREAMBLE" /\ fifoPhase <= 1 /\ fifoPhase' = 1
          /\ \A i \in RawWrites(bus') : bus'[i][3] = PREAMBLE_MSG
     /\ (SymbolPushes(bus') # {} /\ state = "FRAME") => (fifoPhase <= 2 /\ fifoPhase' = 2)
     /\ (SymbolPushes(bus') # {} /\ state = "POSTAMBLE") =>
          (fifoPhase' = 3 \/ (fifoPhase' = 0 /\ state' = "IDLE"))
     /\ FifoWrites(bus') # {} => state \in {"PREAMBLE", "FRAME", "POSTAMBLE"}
     /\ (SymbolPushes(bus') # {} /\ state = "PREAMBLE") => FALSE
     /\ fifoPhase' < fifoPhase => (fifoPhase' = 0 /\ state' \in {"IDLE", "START_TX"})
    ]_vars
C12_Witness ==
  /\ state = "POSTAMBLE" /\ idx = 1 /\ fifoPhase = 3 /\ SymbolPushes(bus) # {}
  /\ Len(sent) = len /\ len = RADIO_FRAME_LENGTH - 1

\* the most register transactions a poll made in a state may issue
MaxTransactions ==
  CASE state = "CONFIGURE" -> Len(ConfigureWrites) + MAX_ADDR + 1
    [] state = "FRAME"     -> IF idx < len THEN 2 * (len - idx) ELSE 0
    [] state = "POSTAMBLE" -> 3
    [] state = "WAIT_AR"   -> 2
    [] state \in {"START_TX", "WAIT_TX", "PREAMBLE"} -> 1
    [] OTHER -> 0

\* C13: a poll can be made in every state, and every poll issues a bounded number of
\* register transactions; a FRAME poll has at most len - idx accepted pushes and at most
\* one rejected push, the rejected push is its last transaction, and it stops short of
\* len only on a rejected push
C13_PollStep ==
  IsProcess(lastOp') =>
     /\ Len(bus') <= MaxTransactions
     /\ (state = "FRAME" /\ idx < len) =>
          /\ Cardinality(SymbolPushes(bus')) <= len - idx
          /\ Cardinality(SymbolPushes(bus')) = idx' - idx
          /\ RejectedPushes(bus') \subseteq {Len(bus')}
          /\ (idx' < len) = (RejectedPushes(bus') # {})
C13_PollTerminates == [] (ENABLED RADIO_Process) /\ [][C13_PollStep]_vars
C13_Witness ==
  /\ state = "FRAME" /\ IsProcess(lastOp) /\ lastOp.from = "FRAME"
  /\ len = RADIO_FRAME_LENGTH - 1 /\ Len(bus) = 2 * len /\ idx = len

FifoFull(status) == (status \div 8) % 2 = 1

\* C14: Transmit10(bit) writes the high byte of the symbol (IQ_0 for bit = 0, IQ_1 otherwise)
\* to FIFOCTRL; it writes the low byte to FIFODATA and returns true exactly when the status
\* answered to that write has FIFO_FULL clear, otherwise it writes nothing more and returns false
C14_TransmitSymbol ==
  lastOp.op = "Transmit10" =>
    LET sym == IF lastOp.in[1] = 0 THEN 151 ELSE 873
        high == <<"W", 4, sym \div 256>>
        low == <<"W", 5, sym % 256>>
    IN  /\ lastOp.ret = ~FifoFull(lastOp.in[2])
        /\ bus = IF FifoFull(lastOp.in[2]) THEN <<high>> ELSE <<high, low>>
C14_Witness ==
  /\ lastOp.op = "Transmit10" /\ lastOp.in[1] # 0 /\ lastOp.in[2] = 8 + 32 + 1
  /\ ~lastOp.ret /\ Len(bus) = 1

\* C15 as stated: a PREAMBLE poll made before the deadline pushes the preamble through
\* Transmit10: it writes FIFOCTRL, and writes FIFODATA only after a FIFOCTRL write
C15_PreambleBackPressure ==
  [][(state = "PREAMBLE" /\ IsProcess(lastOp')) =>
       /\ RawWrites(bus') = {}
       /\ state' = "PREAMBLE" => RejectedPushes(bus') \cup SymbolPushes(bus') # {}]_vars

\* the deadline in idx was computed without overflow of the tick width
NoOverflow(delay) == idx >= delay
Leaves(st) == state = st /\ state' # st

\* C16: CONFIGURE and START_TX set idx to now + delay and PREAMBLE is entered with
\* idx = now + PREAMBLE_DURATION, computed on the tick width; a waiting state keeps idx
\* and is left by a poll only: WAIT_CONF (to IDLE) and WAIT_TX with now > idx, PREAMBLE
\* (to FRAME) with now >= idx; and where the sum did not overflow the tick width, more
\* than CONFIGURATION_DELAY, more than STARTUP_DELAY and at least PREAMBLE_DURATION ticks
\* have passed since the deadline was set
C16_NoEarlyLeave ==
  [][/\ (state = "CONFIGURE" /\ IsProcess(lastOp')) =>
          idx' = (tick + CONFIGURATION_DELAY) % TickMod
     /\ (state = "START_TX" /\ IsProcess(lastOp')) => idx' = (tick + STARTUP_DELAY) % TickMod
     /\ (state # "PREAMBLE" /\ state' = "PREAMBLE") =>
          idx' = (tick' + PREAMBLE_DURATION) % TickMod
     /\ (state \in {"WAIT_CONF", "WAIT_TX", "PREAMBLE"} /\ state' = state) => idx' = idx
     /\ Leaves("WAIT_CONF") =>
          /\ IsProcess(lastOp') /\ state' = "IDLE" /\ tick > idx
          /\ NoOverflow(CONFIGURATION_DELAY) => waited > CONFIGURATION_DELAY
     /\ Leaves("WAIT_TX") =>
          /\ IsProcess(lastOp') /\ tick > idx
          /\ NoOverflow(STARTUP_DELAY) => waited > STARTUP_DELAY
     /\ Leaves("PREAMBLE") =>
          /\ IsProcess(lastOp') /\ state' = "FRAME" /\ tick >= idx
          /\ NoOverflow(PREAMBLE_DURATION) => waited >= PREAMBLE_DURATION
    ]_vars
C16_Witness ==
  /\ state = "FRAME" /\ IsProcess(lastOp) /\ lastOp.from = "PREAMBLE"
  /\ fifoPhase = 1 /\ ~txWrapped /\ tick >= 1 + STARTUP_DELAY + PREAMBLE_DURATION

\* C17: len <= RADIO_FRAME_LENGTH - 1 always; in FRAME idx <= len and in POSTAMBLE idx is
\* 0 or 1; FRAME is entered from PREAMBLE only and POSTAMBLE from FRAME only, both with idx = 0
C17_CursorInRange ==
  /\ len <= RADIO_FRAME_LENGTH - 1
  /\ state = "FRAME" => idx \in 0 .. len
  /\ state = "POSTAMBLE" => idx \in {0, 1}
C17_EnteredAtZero ==
  /\ (state # "FRAME" /\ state' = "FRAME") => (state = "PREAMBLE" /\ idx' = 0)
  /\ (state # "POSTAMBLE" /\ state' = "POSTAMBLE") => (state = "FRAME" /\ idx' = 0)
C17_CursorValid == [] C17_CursorInRange /\ [][C17_EnteredAtZero]_vars
C17_Witness ==
  /\ state = "FRAME" /\ IsProcess(lastOp) /\ lastOp.from = "PREAMBLE"
  /\ idx = 0 /\ len = RADIO_FRAME_LENGTH - 1 /\ fifoPhase = 1

\* C18: once CONFIGURE was polled, the value last written to the power-mode register is
\* standby in WAIT_CONF, IDLE and START_TX, synth+tx in WAIT_TX and WAIT_AR and full-tx in
\* PREAMBLE, FRAME and POSTAMBLE; and every write to the FIFO registers is issued while
\* that value is full-tx
C18_ModeOfState ==
  firstConf # << >> =>
    /\ state \in {"WAIT_CONF", "IDLE", "START_TX"} => pwr = 5
    /\ state \in {"WAIT_TX", "WAIT_AR"} => pwr = 12
    /\ state \in {"PREAMBLE", "FRAME", "POSTAMBLE"} => pwr = 13
C18_FifoInFullTx ==
  \A i \in FifoWrites(bus') : PwrAfter(SubSeq(bus', 1, i - 1), pwr) = 13
C18_PowerSequencing == [] C18_ModeOfState /\ [][C18_FifoInFullTx]_vars
C18_Witness ==
  /\ state = "IDLE" /\ IsProcess(lastOp) /\ lastOp.from = "POSTAMBLE"
  /\ pwr = 5 /\ SymbolPushes(bus) # {} /\ bus[Len(bus)] = <<"W", 2, 5>>

Reconfiguring == {"CONFIGURE", "WAIT_CONF", "IDLE"}

\* C19: a WAIT_AR poll that fails leaves for CONFIGURE with nothing of the accepted frame
\* written to the FIFO; polls in CONFIGURE, WAIT_CONF and IDLE write nothing to the FIFO
\* and move CONFIGURE -> WAIT_CONF -> IDLE; and these states are left for a transmission
\* by an accepted SetFrame call in IDLE only
C19_Step ==
  /\ (state = "WAIT_AR" /\ state' = "CONFIGURE") =>
       (fifoPhase = 0 /\ sent = << >> /\ FifoWrites(bus') = {})
  /\ (state \in Reconfiguring /\ IsProcess(lastOp')) =>
       /\ FifoWrites(bus') = {}
       /\ UNCHANGED <<sent, fifoPhase, len, frame>>
       /\ state' \in (CASE state = "CONFIGURE" -> {"WAIT_CONF"}
                        [] state = "WAIT_CONF" -> {"WAIT_CONF", "IDLE"}
                        [] OTHER -> {"IDLE"})
  /\ (state \in Reconfiguring /\ state' \notin Reconfiguring) =>
       (state = "IDLE" /\ IsSetFrame(lastOp') /\ state' = "START_TX")
C19_NothingSent ==
  (state \in {"CONFIGURE", "WAIT_CONF"} /\ len # 0) => (sent = << >> /\ fifoPhase = 0)
C19_FrameLost == [] C19_NothingSent /\ [][C19_Step]_vars
C19_Witness ==
  /\ state = "IDLE" /\ IsProcess(lastOp) /\ lastOp.from = "WAIT_CONF"
  /\ len # 0 /\ sent = << >> /\ fifoPhase = 0

\* C20 as stated: also when now + delay overflows the tick width, WAIT_CONF and WAIT_TX
\* are left only after more than the delay has passed and PREAMBLE only after
\* PREAMBLE_DURATION has passed (no wait is skipped or cut short)
C20_WrapSafeDeadlines ==
  [][/\ Leaves("WAIT_CONF") => waited > CONFIGURATION_DELAY
     /\ Leaves("WAIT_TX") => waited > STARTUP_DELAY
     /\ Leaves("PREAMBLE") => waited >= PREAMBLE_DURATION]_vars

TypeOK ==
  /\ tick \in 0 .. TickMod - 1
  /\ state \in RADIO_State
  /\ idx \in 0 .. TickMod - 1
  /\ len \in 0 .. RADIO_FRAME_LENGTH - 1
  /\ frame \in [1 .. RADIO_FRAME_LENGTH -> Byte]
  /\ nextAR \in 0 .. TickMod - 1
  /\ sinceAR \in -1 .. AR_INTERVAL
  /\ pwr \in {-1, PWRMODE_STANDBY, PWRMODE_SYNTHTX, PWRMODE_FULLTX}
  /\ waited \in -1 .. MaxWait
  /\ fifoPhase \in 0 .. 3
====
